---- MODULE Spec2Model ----
(***************************************************************************)
(* Model of the SYNCRO subscription renewal contract                       *)
(* (contracts/subscription_renewal/src/lib.rs).                            *)
(*                                                                         *)
(* The persistent storage of the contract is the function `store` from     *)
(* subscription ids to SubscriptionData; a key that was never set is not   *)
(* in its domain.  The host ledger sequence is `ledger`.  Every entry      *)
(* point is one atomic step: a panic rolls the whole invocation back, so   *)
(* an aborted call leaves storage as it was and publishes no event.        *)
(*                                                                         *)
(* u32 is modelled with a reduced width: the values 0..U32Max, arithmetic  *)
(* modulo U32Max + 1.  What `+` does on overflow depends on the build      *)
(* profile (overflow-checks), which is not part of the sources; the model  *)
(* keeps both outcomes (overflow_checks).                                  *)
(*                                                                         *)
(* The agent registry (contracts/agent-registry/src/lib.rs) is a second    *)
(* contract with storage of its own: the admin in instance storage and one *)
(* persistent entry per authorized agent.  The renewal contract never      *)
(* calls it.  Spec is the renewal contract, SpecRegistry the registry.     *)
(***************************************************************************)
EXTENDS Integers, Sequences, FiniteSets, TLC

\* ------------------------------------------------------------------ bounds
\* Largest value of the reduced-width u32.
U32Max == 7
\* Largest ledger sequence number the host reaches.
MaxLedger == 2
\* Largest max_retries a caller passes.
MaxRetries == 1
\* Largest ordinary cooldown_ledgers a caller passes (U32Max is passed too).
MaxCooldown == 1

SubIds == {1, 2}
Addresses == {"alice", "bob"}
RetryInputs == 0..MaxRetries
CooldownInputs == (0..MaxCooldown) \cup {U32Max}

VARIABLES
    store,            \* env.storage().persistent(): sub_id -> SubscriptionData
    ledger,           \* env.ledger().sequence()
    overflow_checks,  \* build profile: TRUE = `+` panics on overflow, FALSE = wraps
    events,           \* events published by the most recent invocation
    last,             \* the most recent invocation: entry point, id, outcome
    inited,           \* ids on which init_sub has been invoked
    streak,           \* per id: completed failures since creation or last success
    admin,            \* registry, instance storage: DataKey::Admin ("none": not set)
    agents,           \* registry, persistent storage: the addresses with a DataKey::Agent entry
    reg_events,       \* registry: events published by its most recent invocation
    reg_last,         \* registry: its most recent invocation
    reg_hist          \* registry, per agent: the last register/revoke that completed

renewalVars == <<store, ledger, overflow_checks, events, last, inited, streak>>
registryVars == <<admin, agents, reg_events, reg_last, reg_hist>>
vars == <<store, ledger, overflow_checks, events, last, inited, streak,
          admin, agents, reg_events, reg_last, reg_hist>>

\* ---------------------------------------------------------------- the data
SubscriptionState == {"Active", "Retrying", "Failed"}

SubscriptionData ==
    [owner : Addresses, state : SubscriptionState,
     failure_count : 0..U32Max, last_attempt_ledger : 0..U32Max]

\* u32 addition as the processor does it when overflow checks are off.
WrappingAdd(a, b) == (a + b) % (U32Max + 1)

\* u32 addition leaves the range.
AddOverflows(a, b) == a + b > U32Max

\* persistent().has(&key)
Has(st, key) == key \in DOMAIN st

\* A set that writes the whole storage anew and loses the other keys.
StorageSet_Clobbers(st, key, data) == [k \in {key} |-> data]

\* persistent().set(&key, &data)
StorageSet(st, key, data) == [k \in (DOMAIN st) \cup {key} |-> IF k = key THEN data ELSE st[k]]

\* The record init_sub builds.
NewSubscription(info) ==
    [owner |-> info, state |-> "Active", failure_count |-> 0, last_attempt_ledger |-> 0]

\* init_sub: builds the record and sets it under sub_id, whatever was there.
InitSubStore(st, info, sub_id) == StorageSet(st, sub_id, NewSubscription(info))

\* A cooldown test with a built-in minimum of one ledger.
CooldownActive_MinimumOne(data, current_ledger, cooldown_ledgers) ==
    /\ data.failure_count > 0
    /\ current_ledger < (data.last_attempt_ledger
                           + (IF cooldown_ledgers = 0 THEN 1 ELSE cooldown_ledgers))
                        % (U32Max + 1)

\* A cooldown test that is applied to records without failures too.
CooldownActive_IgnoresCount(data, current_ledger, cooldown_ledgers) ==
    current_ledger < (data.last_attempt_ledger + cooldown_ledgers) % (U32Max + 1)

\* The cooldown test of renew, the sum taken with wrapping.
CooldownActive(data, current_ledger, cooldown_ledgers) ==
    /\ data.failure_count > 0
    /\ current_ledger < WrappingAdd(data.last_attempt_ledger, cooldown_ledgers)

\* The sum of the cooldown test panics: it is evaluated (failure_count > 0),
\* it overflows, and the build checks overflow.
CooldownSumPanics(data, cooldown_ledgers, checks) ==
    /\ data.failure_count > 0
    /\ AddOverflows(data.last_attempt_ledger, cooldown_ledgers)
    /\ checks

\* A success branch that clears the counter and forgets the state.
RenewSuccess_KeepsState(data, current_ledger) ==
    [data EXCEPT !.failure_count = 0,
                 !.last_attempt_ledger = current_ledger]

\* A success branch that forgets to clear the failure counter.
RenewSuccess_KeepsCount(data, current_ledger) ==
    [data EXCEPT !.state = "Active",
                 !.last_attempt_ledger = current_ledger]

\* A success branch that forgets to record the attempt.
RenewSuccess_StaleLedger(data, current_ledger) ==
    [data EXCEPT !.state = "Active",
                 !.failure_count = 0]

\* The success branch of renew.
RenewSuccess(data, current_ledger) ==
    [data EXCEPT !.state = "Active",
                 !.failure_count = 0,
                 !.last_attempt_ledger = current_ledger]

\* An escalation that is off by one (>= for >).
EscalatedState_OffByOne(failure_count, max_retries) ==
    IF failure_count >= max_retries THEN "Failed" ELSE "Retrying"

\* A failure branch that never escalates.
EscalatedState_NeverFails(failure_count, max_retries) == "Retrying"

\* The state the failure branch of renew chooses.
EscalatedState(failure_count, max_retries) ==
    IF failure_count > max_retries THEN "Failed" ELSE "Retrying"

\* A failure branch that forgets to record the attempt.
RenewFailure_StaleLedger(data, current_ledger, max_retries) ==
    [data EXCEPT !.failure_count = data.failure_count + 1,
                 !.state = IF data.failure_count + 1 > max_retries
                           THEN "Failed" ELSE "Retrying"]

\* A failure branch that forgets to count the failure.
RenewFailure_NoIncrement(data, current_ledger, max_retries) ==
    [data EXCEPT !.last_attempt_ledger = current_ledger,
                 !.state = IF data.failure_count > max_retries
                           THEN "Failed" ELSE "Retrying"]

\* The failure branch of renew.
RenewFailure(data, current_ledger, max_retries) ==
    LET count == WrappingAdd(data.failure_count, 1)
    IN  [data EXCEPT !.failure_count = count,
                     !.last_attempt_ledger = current_ledger,
                     !.state = EscalatedState(count, max_retries)]

\* Events of the two branches, in publication order.
SuccessEvents(sub_id, data) ==
    << [topic |-> "renewed", sub_id |-> sub_id, payload |-> <<data.owner>>] >>

\* Failure events whose state_ch payload is the state before the escalation.
FailureEvents_StaleState(sub_id, data, current_ledger) ==
    << [topic |-> "failed", sub_id |-> sub_id,
        payload |-> <<data.failure_count, current_ledger>>],
       [topic |-> "state_ch", sub_id |-> sub_id, payload |-> <<"Retrying">>] >>

FailureEvents(sub_id, data, current_ledger) ==
    << [topic |-> "failed", sub_id |-> sub_id,
        payload |-> <<data.failure_count, current_ledger>>],
       [topic |-> "state_ch", sub_id |-> sub_id, payload |-> <<data.state>>] >>

\* An invocation that panicked: storage and events are rolled back.
Aborted(st, reason) ==
    [result |-> reason, ret |-> FALSE, store |-> st, events |-> << >>]

\* A read that falls back to a default record instead of panicking.
MissingRecord_Creates(st, sub_id) ==
    [result |-> "ok", ret |-> TRUE,
     store |-> [k \in (DOMAIN st) \cup {sub_id} |->
                  IF k = sub_id
                  THEN [owner |-> "alice", state |-> "Active",
                        failure_count |-> 0, last_attempt_ledger |-> 0]
                  ELSE st[k]],
     events |-> << >>]

\* renew reads a key that is not set: expect("Subscription not found") panics.
MissingRecord(st, sub_id) == Aborted(st, "SubscriptionNotFound")

\* A renew without the terminal-state test.
IsTerminal_Never(data) == FALSE

\* The terminal-state test of renew.
IsTerminal(data) == data.state = "Failed"

\* A cooldown rejection that records the attempt and returns instead of panicking.
CooldownRejected_Soft(st, sub_id, data, current_ledger) ==
    [result |-> "CooldownActive", ret |-> FALSE,
     store |-> [st EXCEPT ![sub_id] =
                  [data EXCEPT !.last_attempt_ledger = current_ledger]],
     events |-> << >>]

\* renew inside the cooldown: panic!("Cooldown period active").
CooldownRejected(st, sub_id, data, current_ledger) == Aborted(st, "CooldownActive")

\* A renew that tests the cooldown before the terminal state.
RenewCall_CooldownFirst(st, sub_id, max_retries, cooldown_ledgers, succeed, current_ledger, checks) ==
    IF sub_id \notin DOMAIN st THEN [result |-> "SubscriptionNotFound", ret |-> FALSE,
                                     store |-> st, events |-> << >>]
    ELSE LET data == st[sub_id]
             sum == (data.last_attempt_ledger + cooldown_ledgers) % (U32Max + 1)
         IN
        IF data.failure_count > 0 /\ current_ledger < sum
            THEN [result |-> "CooldownActive", ret |-> FALSE,
                  store |-> st, events |-> << >>]
        ELSE IF data.state = "Failed"
            THEN [result |-> "TerminalStateViolation", ret |-> FALSE,
                  store |-> st, events |-> << >>]
        ELSE IF succeed
            THEN [result |-> "ok", ret |-> TRUE,
                  store |-> [st EXCEPT ![sub_id] =
                     [data EXCEPT !.state = "Active", !.failure_count = 0,
                                  !.last_attempt_ledger = current_ledger]],
                  events |-> << [topic |-> "renewed", sub_id |-> sub_id,
                                 payload |-> <<data.owner>>] >>]
        ELSE LET count == data.failure_count + 1
                 state == IF count > max_retries THEN "Failed" ELSE "Retrying"
             IN  [result |-> "ok", ret |-> FALSE,
                  store |-> [st EXCEPT ![sub_id] =
                     [data EXCEPT !.state = state, !.failure_count = count,
                                  !.last_attempt_ledger = current_ledger]],
                  events |-> << [topic |-> "failed", sub_id |-> sub_id,
                                 payload |-> <<count, current_ledger>>],
                                [topic |-> "state_ch", sub_id |-> sub_id,
                                 payload |-> <<state>>] >>]

\* renew as a function of the storage, its arguments, the ledger sequence and
\* the build profile: the outcome, the value returned, the storage and the
\* events afterwards.
RenewCall(st, sub_id, max_retries, cooldown_ledgers, succeed, current_ledger, checks) ==
    IF ~Has(st, sub_id) THEN MissingRecord(st, sub_id)
    ELSE LET data == st[sub_id] IN
        IF IsTerminal(data) THEN Aborted(st, "TerminalStateViolation")
        ELSE IF CooldownSumPanics(data, cooldown_ledgers, checks)
            THEN Aborted(st, "ArithmeticOverflow")
        ELSE IF CooldownActive(data, current_ledger, cooldown_ledgers)
            THEN CooldownRejected(st, sub_id, data, current_ledger)
        ELSE IF succeed
            THEN LET new == RenewSuccess(data, current_ledger) IN
                 [result |-> "ok", ret |-> TRUE,
                  store |-> StorageSet(st, sub_id, new),
                  events |-> SuccessEvents(sub_id, new)]
        ELSE IF AddOverflows(data.failure_count, 1) /\ checks
            THEN Aborted(st, "ArithmeticOverflow")
        ELSE LET new == RenewFailure(data, current_ledger, max_retries) IN
                 [result |-> "ok", ret |-> FALSE,
                  store |-> StorageSet(st, sub_id, new),
                  events |-> FailureEvents(sub_id, new, current_ledger)]

\* get_sub: the outcome of the read.
GetSubResult(st, sub_id) ==
    IF Has(st, sub_id) THEN "ok" ELSE "SubscriptionNotFound"

\* ----------------------------------------------------- history bookkeeping
NoCall ==
    [op |-> "none", sub_id |-> 0, succeed |-> FALSE, result |-> "ok",
     pre_state |-> "Absent"]

\* The state of the record under key before a call ("Absent": no record).
StateOf(st, key) == IF Has(st, key) THEN st[key].state ELSE "Absent"

\* No completed failure since the record was created or last renewed.
\* policy: the max_retries of the failures counted (-1: none yet, -2: they differ).
NoStreak == [fails |-> 0, policy |-> -1]

\* The streak of an id after a renew call with the given outcome.
StreakAfter(s, r, max_retries, succeed) ==
    IF r.result # "ok" THEN s
    ELSE IF succeed THEN NoStreak
    ELSE [fails |-> s.fails + 1,
          policy |-> IF s.policy \in {-1, max_retries} THEN max_retries ELSE -2]

\* ------------------------------------------------------- the agent registry
\* instance().has(&DataKey::Admin) is false.
NoAdmin == "none"

\* An init that stores the admin whatever is stored already.
RegistryInit_Overwrites(adm, new_admin) == [result |-> "ok", admin |-> new_admin]

\* init: AlreadyInitialized if an admin is stored, else the admin is stored.
RegistryInit(adm, new_admin) ==
    IF adm # NoAdmin
    THEN [result |-> "AlreadyInitialized", admin |-> adm]
    ELSE [result |-> "ok", admin |-> new_admin]

\* admin.require_auth(): the invocation carries the admin's authorization.
RequireAuth(adm, signer) == signer = adm

\* is_authorized: persistent().has(&DataKey::Agent(agent)).
IsAuthorized(ags, agent) == agent \in ags

\* A register that removes the entry instead of setting it.
RegisterEntry_Removes(ags, agent) == ags \ {agent}

\* register: persistent().set(&DataKey::Agent(agent), &true).
RegisterEntry(ags, agent) == ags \cup {agent}

\* revoke: persistent().remove(&DataKey::Agent(agent)).
RevokeEntry(ags, agent) == ags \ {agent}

\* The event register and revoke publish: topics ("agent", kind), data agent.
AgentEvent(kind, agent) == << [topics |-> <<"agent", kind>>, data |-> agent] >>

\* A registry invocation that returned Err or trapped: nothing is committed.
RegistryRejected(ags, reason) ==
    [result |-> reason, agents |-> ags, events |-> << >>]

\* A gate that skips the read of the admin when none is stored.
AdminGate_NoInitCheck(adm, signer) ==
    IF adm # NoAdmin /\ ~RequireAuth(adm, signer) THEN "AuthFailed" ELSE "ok"

\* A gate that lets every signer through.
AdminGate_Open(adm, signer) == "ok"

\* The gate of register and revoke: NotInitialized without a stored admin, a
\* failed require_auth traps the invocation.
AdminGate(adm, signer) ==
    IF adm = NoAdmin THEN "NotInitialized"
    ELSE IF ~RequireAuth(adm, signer) THEN "AuthFailed"
    ELSE "ok"

\* register as a function of the registry storage, the agent and the signer.
RegisterCall(adm, ags, agent, signer) ==
    IF AdminGate(adm, signer) # "ok"
    THEN RegistryRejected(ags, AdminGate(adm, signer))
    ELSE [result |-> "ok", agents |-> RegisterEntry(ags, agent),
          events |-> AgentEvent("reg", agent)]

\* revoke as a function of the registry storage, the agent and the signer.
RevokeCall(adm, ags, agent, signer) ==
    IF AdminGate(adm, signer) # "ok"
    THEN RegistryRejected(ags, AdminGate(adm, signer))
    ELSE [result |-> "ok", agents |-> RevokeEntry(ags, agent),
          events |-> AgentEvent("rev", agent)]

\* require_authorized: panics unless the agent is authorized.
RequireAuthorizedResult(ags, agent) ==
    IF IsAuthorized(ags, agent) THEN "ok" ELSE "AgentNotAuthorized"

NoRegistryCall ==
    [op |-> "none", agent |-> "none", signer |-> "none", result |-> "ok",
     ret |-> FALSE]

\* The last completed register/revoke of an agent after a call on it.
HistAfter(h, agent, kind, result) ==
    IF result = "ok" THEN [h EXCEPT ![agent] = kind] ELSE h

\* -------------------------------------------------------------- the system
Init ==
    /\ store = << >>
    /\ ledger = 0
    /\ overflow_checks \in BOOLEAN
    /\ events = << >>
    /\ last = NoCall
    /\ inited = {}
    /\ streak = [i \in SubIds |-> NoStreak]
    /\ admin = NoAdmin
    /\ agents = {}
    /\ reg_events = << >>
    /\ reg_last = NoRegistryCall
    /\ reg_hist = [a \in Addresses |-> "none"]

InitSub(info, sub_id) ==
    /\ store' = InitSubStore(store, info, sub_id)
    /\ events' = << >>
    /\ last' = [op |-> "init_sub", sub_id |-> sub_id, succeed |-> FALSE,
                result |-> "ok", pre_state |-> StateOf(store, sub_id)]
    /\ inited' = inited \cup {sub_id}
    /\ streak' = [streak EXCEPT ![sub_id] = NoStreak]
    /\ UNCHANGED <<ledger, overflow_checks>>
    /\ UNCHANGED registryVars

Renew(sub_id, max_retries, cooldown_ledgers, succeed) ==
    LET r == RenewCall(store, sub_id, max_retries, cooldown_ledgers, succeed,
                       ledger, overflow_checks)
    IN  /\ store' = r.store
        /\ events' = r.events
        /\ last' = [op |-> "renew", sub_id |-> sub_id, succeed |-> succeed,
                    result |-> r.result, pre_state |-> StateOf(store, sub_id)]
        /\ streak' = [streak EXCEPT
                        ![sub_id] = StreakAfter(@, r, max_retries, succeed)]
        /\ UNCHANGED <<ledger, overflow_checks, inited>>
        /\ UNCHANGED registryVars

GetSub(sub_id) ==
    /\ events' = << >>
    /\ last' = [op |-> "get_sub", sub_id |-> sub_id, succeed |-> FALSE,
                result |-> GetSubResult(store, sub_id),
                pre_state |-> StateOf(store, sub_id)]
    /\ UNCHANGED <<store, ledger, overflow_checks, inited, streak>>
    /\ UNCHANGED registryVars

\* The host moves to the next ledger between invocations.
AdvanceLedger ==
    /\ ledger < MaxLedger
    /\ ledger' = ledger + 1
    /\ events' = << >>
    /\ last' = NoCall
    /\ UNCHANGED <<store, overflow_checks, inited, streak>>
    /\ UNCHANGED registryVars

Next ==
    \/ \E info \in Addresses, sub_id \in SubIds : InitSub(info, sub_id)
    \/ \E sub_id \in SubIds, max_retries \in RetryInputs,
          cooldown_ledgers \in CooldownInputs, succeed \in BOOLEAN :
            Renew(sub_id, max_retries, cooldown_ledgers, succeed)
    \/ \E sub_id \in SubIds : GetSub(sub_id)
    \/ AdvanceLedger

Spec == Init /\ [][Next]_vars

\* ------------------------------------------------- the registry entry points
RegInit(new_admin) ==
    LET r == RegistryInit(admin, new_admin)
    IN  /\ admin' = r.admin
        /\ reg_events' = << >>
        /\ reg_last' = [op |-> "init", agent |-> new_admin, signer |-> "none",
                        result |-> r.result, ret |-> FALSE]
        /\ UNCHANGED <<agents, reg_hist>>
        /\ UNCHANGED renewalVars

Register(agent, signer) ==
    LET r == RegisterCall(admin, agents, agent, signer)
    IN  /\ agents' = r.agents
        /\ reg_events' = r.events
        /\ reg_last' = [op |-> "register", agent |-> agent, signer |-> signer,
                        result |-> r.result, ret |-> FALSE]
        /\ reg_hist' = HistAfter(reg_hist, agent, "register", r.result)
        /\ UNCHANGED admin
        /\ UNCHANGED renewalVars

Revoke(agent, signer) ==
    LET r == RevokeCall(admin, agents, agent, signer)
    IN  /\ agents' = r.agents
        /\ reg_events' = r.events
        /\ reg_last' = [op |-> "revoke", agent |-> agent, signer |-> signer,
                        result |-> r.result, ret |-> FALSE]
        /\ reg_hist' = HistAfter(reg_hist, agent, "revoke", r.result)
        /\ UNCHANGED admin
        /\ UNCHANGED renewalVars

IsAuthorizedQuery(agent) ==
    /\ reg_events' = << >>
    /\ reg_last' = [op |-> "is_authorized", agent |-> agent, signer |-> "none",
                    result |-> "ok", ret |-> IsAuthorized(agents, agent)]
    /\ UNCHANGED <<admin, agents, reg_hist>>
    /\ UNCHANGED renewalVars

RequireAuthorized(agent) ==
    /\ reg_events' = << >>
    /\ reg_last' = [op |-> "require_authorized", agent |-> agent,
                    signer |-> "none",
                    result |-> RequireAuthorizedResult(agents, agent),
                    ret |-> FALSE]
    /\ UNCHANGED <<admin, agents, reg_hist>>
    /\ UNCHANGED renewalVars

NextRegistry ==
    \/ \E new_admin \in Addresses : RegInit(new_admin)
    \/ \E agent \in Addresses, signer \in Addresses : Register(agent, signer)
    \/ \E agent \in Addresses, signer \in Addresses : Revoke(agent, signer)
    \/ \E agent \in Addresses : IsAuthorizedQuery(agent)
    \/ \E agent \in Addresses : RequireAuthorized(agent)

SpecRegistry == Init /\ [][NextRegistry]_vars

TypeOK ==
    /\ DOMAIN store \subseteq SubIds
    /\ \A k \in DOMAIN store : store[k] \in SubscriptionData
    /\ ledger \in 0..MaxLedger
    /\ overflow_checks \in BOOLEAN

\* ---------------------------------------------------------------- helpers
\* The most recent invocation was a renew of sub_id that ran to completion.
CompletedRenew(sub_id) ==
    /\ last.op = "renew"
    /\ last.sub_id = sub_id
    /\ last.result = "ok"

\* The step is an invocation of renew on sub_id.
RenewStep(sub_id) ==
    /\ last'.op = "renew"
    /\ last'.sub_id = sub_id

\* -------------------------------------------------------------- the claims

\* C1: in every reachable state every stored record whose state is Active
\* has failure_count 0.
C1_ActiveHasNoFailures ==
    \A k \in DOMAIN store :
        store[k].state = "Active" => store[k].failure_count = 0

\* C1, its case: a successful renew has just brought a Retrying record back
\* to Active.
C1_Witness ==
    \E k \in DOMAIN store :
        /\ CompletedRenew(k)
        /\ last.succeed
        /\ last.pre_state = "Retrying"
        /\ store[k].state = "Active"
        /\ store[k].failure_count = 0

\* C2: a renew call on an identifier whose record is Failed aborts with the
\* terminal-state panic, whatever max_retries, cooldown_ledgers, outcome flag
\* and ledger sequence it is made with, and the storage is left as it was.
C2_RenewOfFailedAborts ==
    [][\A sub_id \in SubIds :
          ( /\ RenewStep(sub_id)
            /\ Has(store, sub_id)
            /\ store[sub_id].state = "Failed" )
          => ( /\ last'.result = "TerminalStateViolation"
               /\ store' = store
               /\ events' = << >> )]_vars

\* C2, its case: a renew flagged as a success has just been refused on a
\* Failed record, at a later ledger than the failure that made it Failed.
C2_Witness ==
    \E k \in DOMAIN store :
        /\ last.op = "renew"
        /\ last.sub_id = k
        /\ last.succeed
        /\ last.result = "TerminalStateViolation"
        /\ store[k].state = "Failed"
        /\ store[k].last_attempt_ledger < ledger

\* C3: once the record of an identifier is Failed it is Failed in every later
\* state, whatever entry point is invoked.
C3_FailedIsSink ==
    [][\A sub_id \in SubIds :
          (Has(store, sub_id) /\ store[sub_id].state = "Failed")
          => (Has(store', sub_id) /\ store'[sub_id].state = "Failed")]_vars

C5_CooldownGate ==
    [][\A sub_id \in SubIds :
          ( /\ RenewStep(sub_id)
            /\ Has(store, sub_id)
            /\ store[sub_id].state # "Failed"
            /\ store[sub_id].failure_count > 0 )
          => \A max_retries \in RetryInputs, cooldown_ledgers \in CooldownInputs :
                Renew(sub_id, max_retries, cooldown_ledgers, last'.succeed)
                => IF ledger < store[sub_id].last_attempt_ledger + cooldown_ledgers
                   THEN last'.result = "CooldownActive"
                   ELSE last'.result = "ok"]_vars

\* C6: a renew call flagged as a success that passes the preconditions leaves
\* the record Active with failure_count 0 and last_attempt_ledger the current
\* ledger sequence, the owner as it was, whatever the record held before.
C6_ResetOnSuccess ==
    [][\A sub_id \in SubIds :
          ( /\ RenewStep(sub_id)
            /\ last'.succeed
            /\ last'.result = "ok" )
          => /\ Has(store, sub_id)
             /\ store'[sub_id] =
                  [owner |-> store[sub_id].owner, state |-> "Active",
                   failure_count |-> 0, last_attempt_ledger |-> ledger]]_vars

\* C6, its case: a success at a ledger after 0 has just reset a Retrying
\* record.
C6_Witness ==
    \E k \in DOMAIN store :
        /\ CompletedRenew(k)
        /\ last.succeed
        /\ last.pre_state = "Retrying"
        /\ ledger > 0
        /\ store[k].last_attempt_ledger = ledger
        /\ store[k].failure_count = 0

\* C7: init_sub on an identifier that has a record fails with
\* DuplicateSubscription and leaves the storage as it was; on an identifier
\* without a record it creates {Active, 0, 0}.
C7_DuplicateInitRejected ==
    [][\A sub_id \in SubIds :
          (last'.op = "init_sub" /\ last'.sub_id = sub_id)
          => IF Has(store, sub_id)
             THEN last'.result = "DuplicateSubscription" /\ store' = store
             ELSE \E info \in Addresses :
                    store' = StorageSet(store, sub_id, NewSubscription(info))]_vars

\* C8: the last_attempt_ledger stored for an identifier never decreases from
\* one state to the next.
C8_LastAttemptMonotonic ==
    [][\A sub_id \in SubIds :
          Has(store, sub_id)
          => /\ Has(store', sub_id)
             /\ store'[sub_id].last_attempt_ledger
                  >= store[sub_id].last_attempt_ledger]_vars

\* C9: renew and get_sub on an identifier without a record abort with
\* "Subscription not found" and leave the storage as it was, and every
\* identifier that has a record is one init_sub was invoked on.
C9_NoImplicitCreate ==
    [][ /\ \A sub_id \in SubIds :
            ( /\ last'.op \in {"renew", "get_sub"}
              /\ last'.sub_id = sub_id
              /\ ~Has(store, sub_id) )
            => ( /\ last'.result = "SubscriptionNotFound"
                 /\ store' = store )
        /\ DOMAIN store' \subseteq inited' ]_vars

\* C9, its case: a renew has just been refused on an identifier that has no
\* record while another identifier has one.
C9_Witness ==
    /\ last.op = "renew"
    /\ last.result = "SubscriptionNotFound"
    /\ ~Has(store, last.sub_id)
    /\ last.sub_id \notin inited
    /\ DOMAIN store # {}

\* C10: a renew call that aborts leaves the whole storage as it was and
\* publishes no event.
C10_AbortIsClean ==
    [][\A sub_id \in SubIds :
          ( /\ RenewStep(sub_id)
            /\ last'.result # "ok" )
          => ( /\ store' = store
               /\ events' = << >> )]_vars

\* C10, its case: a renew has just been refused by the cooldown on a record
\* that an earlier failure left Retrying.
C10_Witness ==
    \E k \in DOMAIN store :
        /\ last.op = "renew"
        /\ last.sub_id = k
        /\ last.result = "CooldownActive"
        /\ store[k].state = "Retrying"
        /\ events = << >>

\* C11: a completed renew flagged as a success publishes exactly one event,
\* "renewed" with the owner of the record; a completed failure publishes
\* exactly "failed" with (the new failure_count, the ledger sequence) and
\* "state_ch" with the state the call stored.
C11_EventsPerRenew ==
    \A k \in SubIds :
        CompletedRenew(k)
        => /\ Has(store, k)
           /\ IF last.succeed
              THEN events = << [topic |-> "renewed", sub_id |-> k,
                                payload |-> <<store[k].owner>>] >>
              ELSE /\ Len(events) = 2
                   /\ events[1] = [topic |-> "failed", sub_id |-> k,
                                   payload |-> <<store[k].failure_count, ledger>>]
                   /\ events[2] = [topic |-> "state_ch", sub_id |-> k,
                                   payload |-> <<store[k].state>>]
                   /\ store[k].state \in {"Retrying", "Failed"}

\* C11, its case: a failure at a ledger after 0 has just escalated a Retrying
\* record and published state_ch with Failed.
C11_Witness ==
    \E k \in DOMAIN store :
        /\ CompletedRenew(k)
        /\ ~last.succeed
        /\ last.pre_state = "Retrying"
        /\ ledger > 0
        /\ Len(events) = 2
        /\ events[2].payload = <<"Failed">>
        /\ events[1].payload = <<2, ledger>>

\* C12: an init_sub or renew invoked while no caller is authorized in the
\* agent registry creates no record and changes none.
C12_MutationsAreGated ==
    [][( /\ last'.op \in {"init_sub", "renew"}
         /\ \A caller \in Addresses : ~IsAuthorized(agents, caller) )
       => store' = store]_vars

\* C17: a renew call changes the state of a record only along the edges of
\* the state machine: an aborted call changes nothing, a success takes Active
\* or Retrying to Active, a failure takes Active or Retrying to Retrying when
\* the new failure_count is at most max_retries and to Failed when it is
\* above; and Active goes to Failed in one call exactly when the call is a
\* failure with max_retries 0.
C17_OnlySummaryTransitions ==
    [][\A sub_id \in SubIds :
          (RenewStep(sub_id) /\ Has(store, sub_id))
          => LET old == store[sub_id]
                 new == store'[sub_id]
                 failed == last'.result = "ok" /\ ~last'.succeed
             IN  /\ last'.result # "ok" => new = old
                 /\ last'.result = "ok" => old.state \in {"Active", "Retrying"}
                 /\ (last'.result = "ok" /\ last'.succeed) => new.state = "Active"
                 /\ (old.state = "Active" /\ new.state = "Failed") => failed
                 /\ failed
                    => \A max_retries \in RetryInputs :
                          \* a completed failure is the same step for every
                          \* cooldown_ledgers that lets it run, and 0 always does
                          Renew(sub_id, max_retries, 0, FALSE)
                          => /\ new.state =
                                  IF new.failure_count <= max_retries
                                  THEN "Retrying" ELSE "Failed"
                             /\ (old.state = "Active" /\ new.state = "Failed")
                                <=> ( /\ old.state = "Active"
                                      /\ max_retries = 0
                                      /\ new.failure_count = 1 )]_vars

\* C17, its case: a failure has just taken an Active record straight to
\* Failed with failure_count 1.
C17_Witness ==
    \E k \in DOMAIN store :
        /\ CompletedRenew(k)
        /\ ~last.succeed
        /\ last.pre_state = "Active"
        /\ store[k].state = "Failed"
        /\ store[k].failure_count = 1

\* C18: renew tests existence first, then the terminal state, then the
\* cooldown: on an identifier without a record it reports
\* SubscriptionNotFound, and on a Failed record it reports
\* TerminalStateViolation for every cooldown_ledgers, also one that puts the
\* ledger sequence inside the cooldown.
C18_PreconditionOrder ==
    [][\A sub_id \in SubIds :
          RenewStep(sub_id)
          => IF ~Has(store, sub_id)
             THEN last'.result = "SubscriptionNotFound"
             ELSE store[sub_id].state = "Failed"
                  => last'.result = "TerminalStateViolation"]_vars

\* C18, its case: a renew has just been refused with the terminal-state
\* panic on a Failed record at the ledger of its last attempt, where every
\* cooldown_ledgers >= 1 puts the call inside the cooldown.
C18_Witness ==
    \E k \in DOMAIN store :
        /\ last.op = "renew"
        /\ last.sub_id = k
        /\ last.result = "TerminalStateViolation"
        /\ store[k].state = "Failed"
        /\ store[k].failure_count > 0
        /\ store[k].last_attempt_ledger = ledger

\* C19: a renew call on a record whose failure_count is 0 never aborts with
\* the cooldown panic, whatever cooldown_ledgers and ledger sequence.
C19_NoCooldownWithoutFailure ==
    [][\A sub_id \in SubIds :
          ( /\ RenewStep(sub_id)
            /\ Has(store, sub_id)
            /\ store[sub_id].failure_count = 0 )
          => last'.result # "CooldownActive"]_vars

\* C19, its case: a failure has just completed, at a ledger after 0, on an
\* Active record, which no cooldown_ledgers kept from running.
C19_Witness ==
    \E k \in DOMAIN store :
        /\ CompletedRenew(k)
        /\ ~last.succeed
        /\ last.pre_state = "Active"
        /\ ledger > 0
        /\ streak[k].fails = 1
        /\ store[k].last_attempt_ledger = ledger

C13_AllowListSemantics ==
    [][ /\ \A a \in Addresses :
              IsAuthorized(agents', a) <=> reg_hist'[a] = "register"
        /\ \A a \in Addresses :
              (reg_last'.op \in {"register", "revoke"} /\ reg_last'.agent = a)
              => \A b \in Addresses \ {a} :
                    IsAuthorized(agents', b) <=> IsAuthorized(agents, b) ]_vars

\* C13, its case: an agent has just been revoked after having been
\* registered, while another agent stays authorized.
C13_Witness ==
    \E a \in Addresses :
        /\ reg_last.op = "revoke"
        /\ reg_last.agent = a
        /\ reg_last.result = "ok"
        /\ ~IsAuthorized(agents, a)
        /\ \E b \in Addresses \ {a} : IsAuthorized(agents, b)

\* C14: a register or revoke that does not carry the authorization of the
\* stored admin leaves the allow-list as it was and publishes no event.
C14_AdminOnly ==
    [][( /\ reg_last'.op \in {"register", "revoke"}
         /\ ~RequireAuth(admin, reg_last'.signer) )
       => ( /\ agents' = agents
            /\ reg_events' = << >>
            /\ reg_last'.result # "ok" )]_vars

\* C14, its case: a revoke signed by someone other than the stored admin has
\* just been refused on an authorized agent.
C14_Witness ==
    /\ reg_last.op = "revoke"
    /\ reg_last.result = "AuthFailed"
    /\ admin # NoAdmin
    /\ reg_last.signer # admin
    /\ IsAuthorized(agents, reg_last.agent)

\* C15: the first init stores the admin; every later init returns
\* AlreadyInitialized and leaves the stored admin and the allow-list as they
\* were.
C15_InitOnce ==
    [][reg_last'.op = "init"
       => IF admin = NoAdmin
          THEN reg_last'.result = "ok" /\ admin' = reg_last'.agent
          ELSE /\ reg_last'.result = "AlreadyInitialized"
               /\ admin' = admin
               /\ agents' = agents]_vars

\* C15, its case: an init naming another admin has just been refused while
\* an agent is authorized.
C15_Witness ==
    /\ reg_last.op = "init"
    /\ reg_last.result = "AlreadyInitialized"
    /\ reg_last.agent # admin
    /\ agents # {}

\* C16: without a stored admin register and revoke return NotInitialized,
\* leave the allow-list as it was and publish no event; and no agent is
\* authorized in a state without a stored admin.
C16_NotInitialized ==
    [][ /\ ( /\ reg_last'.op \in {"register", "revoke"}
             /\ admin = NoAdmin )
           => ( /\ reg_last'.result = "NotInitialized"
                /\ agents' = agents
                /\ reg_events' = << >> )
        /\ admin' = NoAdmin => agents' = {} ]_vars

\* C16, its case: a register has just returned NotInitialized.
C16_Witness ==
    /\ reg_last.op = "register"
    /\ reg_last.result = "NotInitialized"
    /\ admin = NoAdmin
    /\ agents = {}

\* The step is an invocation of an entry point of the renewal contract on
\* sub_id.
CallOn(sub_id) ==
    /\ last'.op \in {"init_sub", "renew", "get_sub"}
    /\ last'.sub_id = sub_id

\* C21: a renew call changes at most the record under its own identifier and
\* never its owner, and creates no key; get_sub changes no record and
\* publishes no event; a call on one identifier leaves the records under all
\* other identifiers as they were; and no step removes a record.
C21_Frame ==
    [][ /\ DOMAIN store \subseteq DOMAIN store'
        /\ \A sub_id \in SubIds :
              CallOn(sub_id)
              => \A k \in DOMAIN store \ {sub_id} :
                    Has(store', k) /\ store'[k] = store[k]
        /\ \A sub_id \in SubIds :
              RenewStep(sub_id)
              => /\ DOMAIN store' = DOMAIN store
                 /\ Has(store, sub_id)
                    => store'[sub_id].owner = store[sub_id].owner
        /\ last'.op = "get_sub"
           => (store' = store /\ events' = << >>) ]_vars

\* C21, its case: a renew has just completed on one identifier while the
\* other identifier holds a Failed record of another owner.
C21_Witness ==
    \E k \in DOMAIN store, j \in DOMAIN store :
        /\ j # k
        /\ CompletedRenew(k)
        /\ store[k].last_attempt_ledger > store[j].last_attempt_ledger
        /\ store[j].state = "Failed"
        /\ store[j].owner # store[k].owner

\* C22: every stored last_attempt_ledger is at most the ledger sequence;
\* init_sub stores 0, every completed renew stores the ledger sequence it ran
\* at, and no other step changes it, so it is 0 until a renew completes.
C22_LastAttemptBounded ==
    [][ /\ \A k \in DOMAIN store' : store'[k].last_attempt_ledger <= ledger'
        /\ \A sub_id \in SubIds :
              Has(store', sub_id)
              => store'[sub_id].last_attempt_ledger =
                   IF last'.op = "init_sub" /\ last'.sub_id = sub_id THEN 0
                   ELSE IF RenewStep(sub_id) /\ last'.result = "ok" THEN ledger
                   ELSE store[sub_id].last_attempt_ledger ]_vars

\* C22, its case: a failure has just completed at the highest ledger while
\* the other identifier holds a record no renew has completed on, still at 0.
C22_Witness ==
    \E k \in DOMAIN store, j \in DOMAIN store :
        /\ j # k
        /\ CompletedRenew(k)
        /\ ~last.succeed
        /\ ledger = MaxLedger
        /\ store[k].last_attempt_ledger = ledger
        /\ store[j].last_attempt_ledger = 0
        /\ store[j].state = "Active"

C24_PolicyOfThisCall ==
    [][\A sub_id \in SubIds :
          ( /\ RenewStep(sub_id)
            /\ Has(store, sub_id)
            /\ store[sub_id].state # "Failed" )
          => /\ last'.result = "CooldownActive"
                => \A max_retries \in RetryInputs :
                      ~Renew(sub_id, max_retries, 0, last'.succeed)
             /\ (last'.result = "ok" /\ ~last'.succeed)
                => \A max_retries \in RetryInputs :
                      Renew(sub_id, max_retries, 0, FALSE)
                      => ( store'[sub_id].state = "Failed"
                           <=> store'[sub_id].failure_count > max_retries )]_vars

\* C24, its case: at ledger 0 a second failure has just completed right
\* after the first (only cooldown_ledgers 0 lets it run there), with a
\* max_retries other than that of the first.
C24_Witness ==
    \E k \in DOMAIN store :
        /\ CompletedRenew(k)
        /\ ~last.succeed
        /\ last.pre_state = "Retrying"
        /\ ledger = 0
        /\ streak[k].fails = 2
        /\ streak[k].policy = -2

\* C25: no renew on a record with failure_count > 0 runs its transition at a
\* ledger sequence below the unwrapped sum last_attempt_ledger +
\* cooldown_ledgers.
C25_NoWrapThrough ==
    [][\A sub_id \in SubIds :
          ( /\ RenewStep(sub_id)
            /\ last'.result = "ok"
            /\ Has(store, sub_id)
            /\ store[sub_id].failure_count > 0 )
          => \A max_retries \in RetryInputs, cooldown_ledgers \in CooldownInputs :
                Renew(sub_id, max_retries, cooldown_ledgers, last'.succeed)
                => ledger >= store[sub_id].last_attempt_ledger
                               + cooldown_ledgers]_vars

====
